---- MODULE Spec2Model ----
(***************************************************************************)
(* caesium-clt: the job orchestration pipeline of src/main.rs.             *)
(*                                                                         *)
(* A path is a sequence of components from the root; a component (a file   *)
(* or directory name) is a sequence of tokens, where the token "." is the  *)
(* dot character and every other token is a run of characters without a    *)
(* dot or a separator.  An Option is a sequence of length at most one:     *)
(* None is <<>> and Some(x) is <<x>>.                                      *)
(***************************************************************************)
EXTENDS Integers, Sequences, FiniteSets, TLC

VARIABLES
    phase,                \* position of main: "init", "map", "recap", "done", "panicked"
    pool,                 \* the global rayon pool: "unbuilt", "configured", "default"
    args,                 \* CommandLineArgs (read-only after parse)
    input_files,          \* the list scan_files returned
    pc,                   \* per job: the next step of the map closure
    result,               \* per job: compression_result
    local,                \* per job: the closure's locals
    dirs,                 \* filesystem: the directories that exist
    files,                \* filesystem: path -> [size, mtime, atime] of the regular files
    fs0,                  \* the filesystem as it was when the run started
    wrote,                \* the jobs that created, truncated, wrote or touched a file
    compression_results,  \* the collected Vec<CompressionResult>
    recap,                \* the totals of write_recap_message
    call,                 \* arguments of a function under test
    ret                   \* its return value, <<>> before the call

vars == <<phase, pool, args, input_files, pc, result, local, dirs, files, fs0,
          wrote, compression_results, recap, call, ret>>

mainVars == <<phase, pool, args, input_files, pc, result, local, files, fs0,
              wrote, compression_results, recap>>

----------------------------------------------------------------------------
(* Bounds *)

MaxThreads == 9
MaxNameLen == 3
MaxSize == 2
MaxFiles == 1

----------------------------------------------------------------------------
(* Option and small helpers *)

None == <<>>
Some(x) == <<x>>

Min(a, b) == IF a <= b THEN a ELSE b

Put(f, p, rec) == [q \in (DOMAIN f) \cup {p} |-> IF q = p THEN rec ELSE f[q]]

Prefixes(p) == {SubSeq(p, 1, k) : k \in 0..Len(p)}

IsPrefix(b, p) == Len(b) <= Len(p) /\ SubSeq(p, 1, Len(b)) = b

----------------------------------------------------------------------------
(* get_parallelism_count *)

get_parallelism_count_nomin(requested_threads, available_threads) ==
    IF requested_threads > 0 THEN requested_threads ELSE available_threads

get_parallelism_count(requested_threads, available_threads) ==
    IF requested_threads > 0
    THEN Min(available_threads, requested_threads)
    ELSE available_threads

----------------------------------------------------------------------------
(* std::path as used by compute_output_full_path *)

Dot == "."

LastDot(name) ==
    LET ds == {i \in 1..Len(name) : name[i] = Dot}
    IN  IF ds = {} THEN 0 ELSE CHOOSE i \in ds : \A k \in ds : k <= i

\* Path::parent: everything but the last component; None for the root
parent(p) == IF Len(p) = 0 THEN None ELSE Some(SubSeq(p, 1, Len(p) - 1))

\* Path::file_name: the last component; None for the root and for ".."
file_name(p) ==
    IF Len(p) = 0 \/ p[Len(p)] = <<Dot, Dot>> THEN None ELSE Some(p[Len(p)])

\* split at the last dot; a name whose only dot is its first character has no extension
rsplit_file_at_dot(name) ==
    LET d == LastDot(name)
    IN  IF d = 0 THEN [before |-> None, after |-> Some(name)]
        ELSE IF d = 1 THEN [before |-> Some(name), after |-> None]
        ELSE [before |-> Some(SubSeq(name, 1, d - 1)),
              after  |-> Some(SubSeq(name, d + 1, Len(name)))]

file_stem(p) ==
    LET n == file_name(p)
    IN  IF n = None THEN None
        ELSE LET s == rsplit_file_at_dot(n[1])
             IN  IF s.before # None THEN s.before ELSE s.after

extension(p) ==
    LET n == file_name(p)
    IN  IF n = None THEN None
        ELSE LET s == rsplit_file_at_dot(n[1])
             IN  IF s.before # None THEN s.after ELSE None

unwrap_or_default(o) == IF o = None THEN <<>> ELSE o[1]

\* PathBuf::join with a relative path
join(a, rel) == a \o rel

\* strip_prefix with its error replaced by the whole path
strip_prefix_or_whole(p, base) ==
    IF IsPrefix(base, p) THEN Some(SubSeq(p, Len(base) + 1, Len(p))) ELSE Some(p)

\* Path::strip_prefix compares whole components
strip_prefix(p, base) ==
    IF IsPrefix(base, p) THEN Some(SubSeq(p, Len(base) + 1, Len(p))) ELSE None

\* the symbolic links of the filesystem: /lnk -> /base/folder
Symlinks == [l \in {<< <<"lnk">> >>} |-> << <<"base">>, <<"folder">> >>]

RECURSIVE Resolve(_, _)
Resolve(acc, rest) ==
    IF rest = <<>> THEN acc
    ELSE LET step == Append(acc, Head(rest))
         IN  Resolve(IF step \in DOMAIN Symlinks THEN Symlinks[step] ELSE step,
                     Tail(rest))

\* fs::canonicalize: links resolved; an error when the directory does not exist
canonicalize(p, ds) ==
    LET r == Resolve(<<>>, p) IN IF r \in ds THEN Some(r) ELSE None

\* fs::create_dir_all: the missing components are created from the root down and an
\* existing directory is a success; fail_at > 0 makes the creation of component
\* fail_at fail when it is missing
create_dir_all(d, ds, fail_at) ==
    LET missing == {k \in 1..Len(d) : SubSeq(d, 1, k) \notin ds}
        ok == fail_at \notin missing
        upto == IF ok THEN Len(d) ELSE fail_at - 1
    IN  [ok |-> ok, dirs |-> ds \cup {SubSeq(d, 1, k) : k \in 1..upto}]

\* lines 297-304 with the check of the extension left out
output_file_name_always_dot(input_file_path, suffix) ==
    unwrap_or_default(file_stem(input_file_path)) \o suffix
        \o <<Dot>> \o unwrap_or_default(extension(input_file_path))

output_file_name(input_file_path, suffix) ==
    LET ext == unwrap_or_default(extension(input_file_path))
        base_name == unwrap_or_default(file_stem(input_file_path))
        pushed == base_name \o suffix
    IN  IF ext # <<>> THEN pushed \o <<Dot>> \o ext ELSE pushed

\* the value is [path |-> Option<PathBuf>, dirs |-> the directories afterwards]
compute_output_full_path(output_directory, input_file_path, base_directory, keep_structure, suffix, ds, fail_at) ==
    LET name == output_file_name(input_file_path, suffix)
    IN  IF keep_structure
        THEN LET par == parent(input_file_path)
             IN  IF par = None THEN [path |-> None, dirs |-> ds]
                 ELSE LET canon == canonicalize(par[1], ds)
                      IN  IF canon = None THEN [path |-> None, dirs |-> ds]
                          ELSE LET output_path_prefix == strip_prefix(canon[1], base_directory)
                               IN  IF output_path_prefix = None
                                   THEN [path |-> None, dirs |-> ds]
                                   ELSE LET full_output_directory ==
                                                join(output_directory, output_path_prefix[1])
                                            made == create_dir_all(full_output_directory, ds, fail_at)
                                        IN  IF made.ok
                                            THEN [path |-> Some(join(full_output_directory, <<name>>)),
                                                  dirs |-> made.dirs]
                                            ELSE [path |-> None, dirs |-> made.dirs]
        ELSE LET made == create_dir_all(output_directory, ds, fail_at)
             IN  IF made.ok
                 THEN [path |-> Some(join(output_directory, <<name>>)), dirs |-> made.dirs]
                 ELSE [path |-> None, dirs |-> made.dirs]

----------------------------------------------------------------------------
(* The values the state of main takes when a function is checked on its own *)

IdleMain ==
    /\ phase = "init"
    /\ pool = "unbuilt"
    /\ args = <<>>
    /\ input_files = <<>>
    /\ pc = <<>>
    /\ result = <<>>
    /\ local = <<>>
    /\ files = <<>>
    /\ fs0 = <<>>
    /\ wrote = {}
    /\ compression_results = <<>>
    /\ recap = <<>>

----------------------------------------------------------------------------
(* get_parallelism_count on its own *)

InitPar ==
    /\ IdleMain
    /\ dirs = {}
    /\ call \in [requested_threads : 0..MaxThreads, available_threads : 0..MaxThreads]
    /\ ret = <<>>

CallParallelism ==
    /\ ret = <<>>
    /\ ret' = <<get_parallelism_count(call.requested_threads, call.available_threads)>>
    /\ UNCHANGED <<mainVars, dirs, call>>

NextPar == CallParallelism

SpecPar == InitPar /\ [][NextPar]_vars

----------------------------------------------------------------------------
(* compute_output_full_path on its own *)

D(s) == <<s>>
TestJpg == <<"test", Dot, "jpg">>

NameTokens == {"test", Dot, "jpg"}

Names ==
    UNION {[1..n -> NameTokens] : n \in 1..MaxNameLen} \ {<<Dot>>, <<Dot, Dot>>}

OutputDir == <<D("output")>>
BaseDir == <<D("base")>>

PathInputDirs ==
    { <<D("base"), D("folder")>>, <<D("base")>>,
      <<D("different_base"), D("folder")>>, <<D("lnk")>>, <<D("base"), D("gone")>> }

\* the directories of the filesystem the function runs in
PathDirs ==
    UNION {Prefixes(d) : d \in {<<D("base"), D("folder")>>,
                                <<D("different_base"), D("folder")>>}}

Suffixes == {<<>>, <<"_suffix">>}

InitPath ==
    /\ IdleMain
    /\ dirs \in {PathDirs, PathDirs \cup {OutputDir}}
    /\ call \in [output_directory : {OutputDir},
                 input_file_path : {Append(d, n) : d \in PathInputDirs, n \in Names},
                 base_directory : {BaseDir},
                 keep_structure : BOOLEAN,
                 suffix : Suffixes]
    /\ ret = <<>>

CallComputeOutputFullPath ==
    /\ ret = <<>>
    /\ \E fail_at \in 0..2 :
          LET r == compute_output_full_path(call.output_directory, call.input_file_path,
                       call.base_directory, call.keep_structure, call.suffix,
                       dirs, fail_at)
          IN  /\ ret' = <<r.path>>
              /\ dirs' = r.dirs
    /\ UNCHANGED <<mainVars, call>>

NextPath == CallComputeOutputFullPath

SpecPath == InitPath /\ [][NextPath]_vars

----------------------------------------------------------------------------
(* main: the files, the arguments and the filesystem a run starts from *)

Policies == {"All", "None", "Bigger"}

\* the files scan_files can return, with what the filesystem holds for each
FilePool ==
    << [path |-> <<D("base"), D("folder"), TestJpg>>, size |-> 2, mtime |-> 1, atime |-> 2],
       [path |-> <<D("base"), D("other"), TestJpg>>,  size |-> 1, mtime |-> 2, atime |-> 2],
       [path |-> <<D("base"), D("folder"), <<"test">> >>, size |-> 2, mtime |-> 2, atime |-> 1] >>

PoolIdx == 1..Len(FilePool)

SetMax(S) == CHOOSE m \in S : \A x \in S : x <= m

\* the clock reading a created or written file gets: later than every input's times
Now == 1 + SetMax({FilePool[i].mtime : i \in PoolIdx} \cup {FilePool[i].atime : i \in PoolIdx})

\* scan_files: an ordered list of distinct files and their common base directory
InputLists ==
    LET idx == UNION {[1..n -> PoolIdx] : n \in 0..Min(MaxFiles, Len(FilePool))}
        inc == {s \in idx : \A i, k \in DOMAIN s : i < k => s[i] < s[k]}
    IN  {[i \in DOMAIN s |-> FilePool[s[i]].path] : s \in inc}

base_path == BaseDir

NoResize == [width |-> None, height |-> None, long_edge |-> None, short_edge |-> None]

\* --output <dir> with a suffix, or --same-folder-as-input without one (in place)
Destinations ==
    { [output |-> Some(OutputDir), same_folder_as_input |-> FALSE, suffix |-> Some(<<"_suffix">>)],
      [output |-> None, same_folder_as_input |-> TRUE, suffix |-> None] }

ArgsSet ==
    { [dry_run |-> dr, keep_dates |-> kd, overwrite |-> ow, keep_structure |-> ks,
       resize |-> rs, suffix |-> dst.suffix,
       output_destination |-> [output |-> dst.output,
                               same_folder_as_input |-> dst.same_folder_as_input]] :
        dr \in BOOLEAN, kd \in BOOLEAN, ow \in Policies, ks \in BOOLEAN,
        rs \in {NoResize, [NoResize EXCEPT !.long_edge = Some(1)]},
        dst \in Destinations }

InputDirs == UNION {Prefixes(parent(FilePool[i].path)[1]) : i \in PoolIdx}

InputFiles ==
    [p \in {FilePool[i].path : i \in PoolIdx} |->
        LET i == CHOOSE k \in PoolIdx : FilePool[k].path = p
        IN  [size |-> FilePool[i].size, mtime |-> FilePool[i].mtime, atime |-> FilePool[i].atime]]

\* lines 86-102: None stands for the two early returns
output_directory_of(a, input_file) ==
    IF a.output_destination.same_folder_as_input
    THEN parent(input_file)
    ELSE a.output_destination.output

\* where a run with arguments a puts the output of input_file
OutputPathOf(a, input_file) ==
    compute_output_full_path(output_directory_of(a, input_file)[1], input_file, base_path,
        a.keep_structure, unwrap_or_default(a.suffix), InputDirs, 0).path[1]

\* the output tree an earlier run left: every output of the list, prev bytes each
EarlierRun(a, list, prev) ==
    [p \in {OutputPathOf(a, list[i]) : i \in DOMAIN list} |->
        [size |-> prev, mtime |-> 1, atime |-> 1]]

Merge(f, g) == [p \in (DOMAIN f) \cup (DOMAIN g) |-> IF p \in DOMAIN g THEN g[p] ELSE f[p]]

NoResult ==
    [original_path |-> <<>>, output_path |-> <<>>, original_size |-> 0,
     compressed_size |-> 0, status |-> "Unstarted", message |-> ""]

NoLocal ==
    [input_file_metadata |-> <<>>, output_full_path |-> <<>>, output_file_size |-> 0,
     create_dir_all |-> <<>>]

InitMain ==
    /\ phase = "init"
    /\ pool = "unbuilt"
    /\ args \in ArgsSet
    /\ input_files \in InputLists
    /\ pc = [j \in DOMAIN input_files |-> "start"]
    /\ result = [j \in DOMAIN input_files |-> NoResult]
    /\ local = [j \in DOMAIN input_files |-> NoLocal]
    /\ \E prev \in 0..MaxSize :
          /\ prev > 0 => ~args.output_destination.same_folder_as_input
          /\ LET earlier == IF prev = 0 THEN <<>> ELSE EarlierRun(args, input_files, prev)
             IN  /\ files = Merge(InputFiles, earlier)
                 /\ dirs = InputDirs
                             \cup UNION {Prefixes(parent(p)[1]) : p \in DOMAIN earlier}
    /\ fs0 = [dirs |-> dirs, files |-> files]
    /\ wrote = {}
    /\ compression_results = <<>>
    /\ recap = <<>>
    /\ call = <<>>
    /\ ret = <<>>

Jobs == DOMAIN input_files

PanicPcs == {"panic_resize", "panic_read"}

----------------------------------------------------------------------------
(* main, lines 55-58: the build error is discarded by unwrap_or_default *)

BuildPoolOrAbort ==
    /\ phase = "init"
    /\ \/ pool' = "configured" /\ phase' = "map"
       \/ pool' = "default" /\ phase' = "aborted"
    /\ UNCHANGED <<args, input_files, pc, result, local, dirs, files, fs0, wrote,
                   compression_results, recap, call, ret>>

BuildPool ==
    /\ phase = "init"
    /\ pool' \in {"configured", "default"}
    /\ phase' = "map"
    /\ UNCHANGED <<args, input_files, pc, result, local, dirs, files, fs0, wrote,
                   compression_results, recap, call, ret>>

----------------------------------------------------------------------------
(* The map closure, lines 66-190, one action per fallible step *)

\* `return compression_result`: the locals go out of scope
Return(j, r) ==
    /\ result' = [result EXCEPT ![j] = r]
    /\ pc' = [pc EXCEPT ![j] = "done"]
    /\ local' = [local EXCEPT ![j] = NoLocal]

Failed(r, msg) == [r EXCEPT !.message = msg]

\* lines 67-84
ReadMetadata(j) ==
    /\ phase = "map"
    /\ pc[j] = "start"
    /\ LET input_file == input_files[j]
           fresh == [NoResult EXCEPT !.original_path = input_file, !.status = "Error"]
       IN  \E ok \in BOOLEAN :
              IF ok /\ input_file \in DOMAIN files
              THEN /\ result' = [result EXCEPT
                                   ![j] = [fresh EXCEPT !.original_size = files[input_file].size]]
                   /\ local' = [local EXCEPT ![j].input_file_metadata = files[input_file]]
                   /\ pc' = [pc EXCEPT ![j] = "resolve"]
              ELSE Return(j, Failed(fresh, "Error reading file metadata"))
    /\ UNCHANGED <<phase, pool, args, input_files, dirs, files, fs0, wrote,
                   compression_results, recap, call, ret>>

\* lines 86-121
ResolveOutputPath(j) ==
    /\ phase = "map"
    /\ pc[j] = "resolve"
    /\ LET input_file == input_files[j]
           output_directory == output_directory_of(args, input_file)
       IN  IF output_directory = None
           THEN /\ Return(j, Failed(result[j],
                        IF args.output_destination.same_folder_as_input
                        THEN "Error getting parent directory"
                        ELSE "Error getting output directory"))
                /\ dirs' = dirs
           ELSE \E fail_at \in 0..(Len(output_directory[1]) + Len(input_file)) :
                   LET r == compute_output_full_path(output_directory[1], input_file,
                                base_path, args.keep_structure,
                                unwrap_or_default(args.suffix), dirs, fail_at)
                   IN  /\ dirs' = r.dirs
                       /\ IF r.path = None
                          THEN Return(j, Failed(result[j], "Error computing output path"))
                          ELSE IF args.dry_run
                          THEN Return(j, [result[j] EXCEPT !.status = "Success"])
                          ELSE /\ local' = [local EXCEPT ![j].output_full_path = r.path[1]]
                               /\ pc' = [pc EXCEPT ![j] = "compress"]
                               /\ result' = result
    /\ UNCHANGED <<phase, pool, args, input_files, files, fs0, wrote,
                   compression_results, recap, call, ret>>

\* lines 49-52
needs_resize ==
    \/ args.resize.width # None
    \/ args.resize.height # None
    \/ args.resize.long_edge # None
    \/ args.resize.short_edge # None

\* lines 123-135: build_compression_parameters unwraps the planner's result and the
\* closure unwraps read_file_to_vec's, so either failure panics
Compress(j) ==
    /\ phase = "map"
    /\ pc[j] = "compress"
    /\ \/ /\ needs_resize
          /\ pc' = [pc EXCEPT ![j] = "panic_resize"]
          /\ UNCHANGED <<result, local>>
       \/ /\ pc' = [pc EXCEPT ![j] = "panic_read"]
          /\ UNCHANGED <<result, local>>
       \/ Return(j, Failed(result[j], "Error compressing file"))
       \/ \E compressed_len \in 1..MaxSize :
             /\ result' = [result EXCEPT ![j].output_path = local[j].output_full_path]
             /\ local' = [local EXCEPT ![j].output_file_size = compressed_len]
             /\ pc' = [pc EXCEPT ![j] = "exists"]
    /\ UNCHANGED <<phase, pool, args, input_files, dirs, files, fs0, wrote,
                   compression_results, recap, call, ret>>

\* lines 137-156 with > for >=
overwrite_skip_strict(overwrite, exists, output_file_size, original_file_size) ==
    /\ exists
    /\ \/ overwrite = "None"
       \/ overwrite = "Bigger" /\ output_file_size > original_file_size

\* lines 137-156: TRUE when the closure returns Skipped
overwrite_skip(overwrite, exists, output_file_size, original_file_size) ==
    IF exists
    THEN CASE overwrite = "None" -> TRUE
           [] overwrite = "Bigger" -> output_file_size >= original_file_size
           [] OTHER -> FALSE
    ELSE FALSE

\* lines 140-142 reporting the candidate size
skipped_result_candidate(r, original_file_size, output_file_size) ==
    [r EXCEPT !.status = "Skipped", !.compressed_size = output_file_size,
              !.message = "File already exists, skipped due overwrite policy"]

\* lines 140-142 and 147-150
skipped_result(r, original_file_size, output_file_size) ==
    [r EXCEPT !.status = "Skipped", !.compressed_size = original_file_size,
              !.message = "File already exists, skipped due overwrite policy"]

CheckOverwrite(j) ==
    /\ phase = "map"
    /\ pc[j] = "exists"
    /\ LET original_file_size == local[j].input_file_metadata.size
           output_file_size == local[j].output_file_size
       IN  IF overwrite_skip(args.overwrite, local[j].output_full_path \in DOMAIN files,
                             output_file_size, original_file_size)
           THEN Return(j, skipped_result(result[j], original_file_size, output_file_size))
           ELSE /\ pc' = [pc EXCEPT ![j] = "create"]
                /\ UNCHANGED <<result, local>>
    /\ UNCHANGED <<phase, pool, args, input_files, dirs, files, fs0, wrote,
                   compression_results, recap, call, ret>>

\* lines 158-164: File::create makes the file or truncates the one that is there
CreateOutput(j) ==
    /\ phase = "map"
    /\ pc[j] = "create"
    /\ \/ /\ Return(j, Failed(result[j], "Error creating output file"))
          /\ UNCHANGED <<files, wrote>>
       \/ /\ files' = Put(files, local[j].output_full_path,
                          [size |-> 0, mtime |-> Now, atime |-> Now])
          /\ wrote' = wrote \cup {j}
          /\ pc' = [pc EXCEPT ![j] = "write"]
          /\ UNCHANGED <<result, local>>
    /\ UNCHANGED <<phase, pool, args, input_files, dirs, fs0,
                   compression_results, recap, call, ret>>

\* lines 165-171: a failed write_all leaves the bytes it got out
WriteOutput(j) ==
    /\ phase = "map"
    /\ pc[j] = "write"
    /\ LET p == local[j].output_full_path
       IN  \/ \E written \in 0..(local[j].output_file_size - 1) :
                 /\ files' = Put(files, p, [files[p] EXCEPT !.size = written, !.mtime = Now])
                 /\ Return(j, Failed(result[j], "Error writing output file"))
           \/ /\ files' = Put(files, p, [files[p] EXCEPT !.size = local[j].output_file_size,
                                                         !.mtime = Now])
              /\ pc' = [pc EXCEPT ![j] = "dates"]
              /\ UNCHANGED <<result, local>>
    /\ UNCHANGED <<phase, pool, args, input_files, dirs, fs0, wrote,
                   compression_results, recap, call, ret>>

\* filetime::set_file_times(p, atime, mtime)
set_file_times(f, atime, mtime) == [f EXCEPT !.atime = atime, !.mtime = mtime]

\* lines 332-334
preserve_dates(output_file, input_atime, input_mtime) ==
    set_file_times(output_file, input_atime, input_mtime)

\* lines 187-188 with the size of the input reported as the compressed size
success_result_original(r, output_file_size) ==
    [r EXCEPT !.status = "Success", !.compressed_size = r.original_size]

\* lines 187-188
success_result(r, output_file_size) ==
    [r EXCEPT !.status = "Success", !.compressed_size = output_file_size]

\* lines 173-189
FinishJob(j) ==
    /\ phase = "map"
    /\ pc[j] = "dates"
    /\ LET p == local[j].output_full_path
           last_modification_time == local[j].input_file_metadata.mtime
           last_access_time == local[j].input_file_metadata.atime
           success == success_result(result[j], local[j].output_file_size)
       IN  IF args.keep_dates
           THEN \/ /\ Return(j, Failed(result[j], "Error preserving file dates"))
                   /\ files' = files
                \/ /\ files' = Put(files, p, preserve_dates(files[p],
                                       last_modification_time, last_access_time))
                   /\ Return(j, success)
           ELSE /\ Return(j, success)
                /\ files' = files
    /\ UNCHANGED <<phase, pool, args, input_files, dirs, fs0, wrote,
                   compression_results, recap, call, ret>>

----------------------------------------------------------------------------
(* main, lines 63-65 and 191-194 *)

\* collect(): every closure has returned
Collect ==
    /\ phase = "map"
    /\ \A j \in Jobs : pc[j] = "done"
    /\ compression_results' = [j \in Jobs |-> result[j]]
    /\ phase' = "recap"
    /\ UNCHANGED <<pool, args, input_files, pc, result, local, dirs, files, fs0, wrote,
                   recap, call, ret>>

\* a panic of a closure is resumed in main once no closure is running:
\* nothing is collected and write_recap_message is never called
PropagatePanic ==
    /\ phase = "map"
    /\ \E j \in Jobs : pc[j] \in PanicPcs
    /\ \A j \in Jobs : pc[j] \in PanicPcs \cup {"start", "done"}
    /\ phase' = "panicked"
    /\ UNCHANGED <<pool, args, input_files, pc, result, local, dirs, files, fs0, wrote,
                   compression_results, recap, call, ret>>

\* lines 197-202: the accumulators before the loop
NoTotals ==
    [total_original_size |-> 0, total_compressed_size |-> 0,
     total_success |-> 0, total_skipped |-> 0, total_errors |-> 0]

\* lines 205-211 with the sizes assigned instead of added
fold_step_assign(acc, r) ==
    [acc EXCEPT !.total_original_size = r.original_size,
                !.total_compressed_size = r.compressed_size,
                !.total_skipped = @ + (IF r.status = "Skipped" THEN 1 ELSE 0),
                !.total_errors = @ + (IF r.status = "Error" THEN 1 ELSE 0),
                !.total_success = @ + (IF r.status \notin {"Skipped", "Error"} THEN 1 ELSE 0)]

\* lines 205-211: the body of the loop for one result
fold_step(acc, r) ==
    [acc EXCEPT !.total_original_size = @ + r.original_size,
                !.total_compressed_size = @ + r.compressed_size,
                !.total_skipped = @ + (IF r.status = "Skipped" THEN 1 ELSE 0),
                !.total_errors = @ + (IF r.status = "Error" THEN 1 ELSE 0),
                !.total_success = @ + (IF r.status \notin {"Skipped", "Error"} THEN 1 ELSE 0)]

\* lines 204-212: the loop, from the first result to the last
RECURSIVE fold_from(_, _)
fold_from(rs, acc) ==
    IF rs = <<>> THEN acc ELSE fold_from(Tail(rs), fold_step(acc, Head(rs)))

\* lines 197-212
fold_results(rs) ==
    [total_files |-> Len(rs)] @@ fold_from(rs, NoTotals)

\* a / b on f64 for integral a and b: 0.0 / 0.0 is NaN, x / 0.0 is an infinity
f64_div(a, b) ==
    IF b # 0 THEN [kind |-> "finite", num |-> a, den |-> b]
    ELSE IF a = 0 THEN [kind |-> "NaN", num |-> 0, den |-> 0]
    ELSE IF a > 0 THEN [kind |-> "inf", num |-> 0, den |-> 0]
    ELSE [kind |-> "-inf", num |-> 0, den |-> 0]

\* x * 100.0 on f64
f64_times_100(x) == IF x.kind = "finite" THEN [x EXCEPT !.num = @ * 100] ELSE x

\* options.rs lines 23-33: Quiet, Progress, WarningsAndErrors, All
VerboseLevels == {0, 1, 2, 3}

\* lines 196-226: the values computed and the lines printed, in order
write_recap_message(rs, verbose) ==
    LET t == fold_results(rs)
        total_saved == t.total_original_size - t.total_compressed_size
        total_saved_percent == f64_times_100(f64_div(total_saved, t.total_original_size))
    IN  [totals |-> t,
         total_saved |-> total_saved,
         total_saved_percent |-> total_saved_percent,
         out |-> IF verbose > 0
                 THEN << <<"Total files", t.total_files>>,
                         <<"Total success", t.total_success>>,
                         <<"Total skipped", t.total_skipped>>,
                         <<"Total errors", t.total_errors>>,
                         <<"Total original size", t.total_original_size>>,
                         <<"Total compressed size", t.total_compressed_size>>,
                         <<"Total saved", total_saved, total_saved_percent>> >>
                 ELSE <<>>]

\* line 193; verbose is args.verbose, or 0 with --quiet (lines 41 and 48), and
\* nothing before the recap reads it
WriteRecap ==
    /\ phase = "recap"
    /\ \E verbose \in VerboseLevels :
          recap' = write_recap_message(compression_results, verbose)
    /\ phase' = "done"
    /\ UNCHANGED <<pool, args, input_files, pc, result, local, dirs, files, fs0, wrote,
                   compression_results, call, ret>>

Next ==
    \/ BuildPool
    \/ \E j \in Jobs : ReadMetadata(j)
    \/ \E j \in Jobs : ResolveOutputPath(j)
    \/ \E j \in Jobs : Compress(j)
    \/ \E j \in Jobs : CheckOverwrite(j)
    \/ \E j \in Jobs : CreateOutput(j)
    \/ \E j \in Jobs : WriteOutput(j)
    \/ \E j \in Jobs : FinishJob(j)
    \/ Collect
    \/ PropagatePanic
    \/ WriteRecap

Spec == InitMain /\ [][Next]_vars

----------------------------------------------------------------------------
(* Claims *)

Terminated == phase \in {"done", "panicked"}

Ended(j) == pc[j] = "done"

\* C1: whatever step fails inside a job, the run finishes with exactly one
\* CompressionResult per input file: a failure is captured as that job's Error
\* result and never keeps the run from completing.
C1_OneResultPerInputFile ==
    Terminated =>
        /\ Len(compression_results) = Len(input_files)
        /\ \A j \in Jobs : Ended(j) /\ result[j].status \in {"Success", "Skipped", "Error"}

\* C2: in dry-run mode no file and no directory is created or modified, and a job
\* whose metadata read and path resolution succeed reports Success with the
\* compressed size at its default value.
C2_DryRunTouchesNothing ==
    args.dry_run =>
        /\ dirs = fs0.dirs
        /\ files = fs0.files
        /\ \A j \in Jobs :
              Ended(j) /\ result[j].message = ""
                  => result[j].status = "Success" /\ result[j].compressed_size = 0

C4_BiggerOverwritesOnlyBigger ==
    [][\A j \in Jobs :
          (/\ args.overwrite = "Bigger"
           /\ pc[j] = "create" /\ pc'[j] = "write"
           /\ local[j].output_full_path \in DOMAIN files)
              => files[local[j].output_full_path].size > local[j].output_file_size]_vars

\* C5: a job that ends Skipped reports the original file size as its compressed size
\* and has written nothing: unless another job wrote, every file is as the run found it.
C5_SkippedIsNoop ==
    \A j \in Jobs :
        result[j].status = "Skipped" =>
            /\ Ended(j)
            /\ result[j].compressed_size = result[j].original_size
            /\ result[j].original_size = fs0.files[input_files[j]].size
            /\ j \notin wrote
            /\ wrote = {} => files = fs0.files

C5_Witness ==
    \E j \in Jobs :
        /\ result[j].status = "Skipped"
        /\ args.overwrite = "Bigger"
        /\ result[j].output_path \in DOMAIN files
        /\ result[j].compressed_size = 2

\* C6: with keep-dates a job that ends Success leaves the output file with the input
\* file's modification time as its modification time and the input file's access time
\* as its access time.
C6_DatesPreserved ==
    \A j \in Jobs :
        (/\ args.keep_dates /\ ~args.dry_run
         /\ Ended(j) /\ result[j].status = "Success"
         /\ wrote = {j})
            => /\ files[result[j].output_path].mtime = fs0.files[input_files[j]].mtime
               /\ files[result[j].output_path].atime = fs0.files[input_files[j]].atime

\* C7: when the resize planner fails for a file the job ends with status Error
\* without a codec call or a write; without a resize request the planner is not invoked.
C7_PlannerFailureIsError ==
    \A j \in Jobs :
        /\ pc[j] = "panic_resize" => Ended(j) /\ result[j].status = "Error"
        /\ ~needs_resize => pc[j] # "panic_resize"

JobStarted(j) == pc[j] # "start"

\* C8 as stated: if the construction of the worker pool fails, or no input file is
\* supplied, the run aborts before any job runs: no job starts and no result is produced.
C8_AbortsBeforeAnyJob ==
    (pool = "default" \/ input_files = <<>>) =>
        /\ \A j \in Jobs : ~JobStarted(j)
        /\ compression_results = <<>>
        /\ phase \in {"init", "map"}

\* C8 amended: a failed construction of the worker pool is discarded and the run goes on
\* to the jobs on the default pool, a run that ends normally having one result per
\* input file; without input files no job starts and the result list stays empty.
C8_PoolFailureIgnored ==
    /\ pool = "default" =>
          /\ phase \in {"map", "recap", "done", "panicked"}
          /\ phase = "done" => Len(compression_results) = Len(input_files)
    /\ input_files = <<>> => compression_results = <<>> /\ phase # "panicked"

C8_Witness ==
    /\ pool = "default"
    /\ phase = "done"
    /\ Len(compression_results) = 1
    /\ compression_results[1].status = "Success"

\* C9: the pool size is `available` when 0 threads are requested and the smaller of
\* requested and available otherwise.
C9_PoolSizing ==
    ret # <<>> =>
        LET r == call.requested_threads
            a == call.available_threads
            n == ret[1]
        IN  /\ r = 0 => n = a
            /\ r > 0 => n <= r /\ n <= a /\ n \in {r, a}

C9_Witness ==
    /\ ret # <<>>
    /\ call.requested_threads = 8
    /\ call.available_threads = 2
    /\ ret[1] = 2

\* the file name C10 states: stem + suffix, then "." + extension when there is one
C10_FileName(c) ==
    LET stem == unwrap_or_default(file_stem(c.input_file_path))
        ext == unwrap_or_default(extension(c.input_file_path))
    IN  stem \o c.suffix \o (IF ext = <<>> THEN <<>> ELSE <<Dot>> \o ext)

C10_TestCase ==
    [output_directory |-> OutputDir,
     input_file_path |-> <<D("base"), D("folder"), TestJpg>>,
     base_directory |-> BaseDir,
     keep_structure |-> TRUE,
     suffix |-> <<"_suffix">>]

\* C10: the resolved path is outputRoot / fileName without keepStructure and
\* outputRoot / (canonical parent relative to baseDir) / fileName with it, where
\* fileName is stem + suffix (+ "." + extension when the extension is not empty);
\* /base/folder/test.jpg under /base with _suffix gives /output/folder/test_suffix.jpg.
C10_ResolvedPath ==
    ret # <<>> =>
        LET c == call
            canon == canonicalize(parent(c.input_file_path)[1], dirs)
            under == canon # None /\ IsPrefix(c.base_directory, canon[1])
            rel == SubSeq(canon[1], Len(c.base_directory) + 1, Len(canon[1]))
            target == IF c.keep_structure THEN c.output_directory \o rel
                      ELSE c.output_directory
        IN  /\ ret[1] # None =>
                  /\ c.keep_structure => under
                  /\ ret[1][1] = Append(target, C10_FileName(c))
            /\ ((c.keep_structure => under) /\ target \in dirs) => ret[1] # None
            /\ (c = C10_TestCase /\ ret[1] # None) =>
                  ret[1][1] = <<D("output"), D("folder"), <<"test", "_suffix", Dot, "jpg">> >>

C10_Witness ==
    /\ call = C10_TestCase
    /\ ret = <<Some(<<D("output"), D("folder"), <<"test", "_suffix", Dot, "jpg">> >>)>>

\* C11: the resolver returns None when keepStructure is set and the canonical parent
\* is not under baseDir, when the parent cannot be canonicalized, or when the output
\* directory cannot be created; without keepStructure an input outside baseDir
\* resolves to outputRoot / fileName.
C11_ResolverFailure ==
    ret # <<>> =>
        LET c == call
            canon == canonicalize(parent(c.input_file_path)[1], dirs)
            outside == canon # None /\ ~IsPrefix(c.base_directory, canon[1])
        IN  /\ (c.keep_structure /\ (canon = None \/ outside)) => ret[1] = None
            /\ (c.keep_structure /\ canon # None /\ ~outside
                  /\ join(c.output_directory, strip_prefix(canon[1], c.base_directory)[1]) \notin dirs)
                  => ret[1] = None
            /\ (~c.keep_structure /\ c.output_directory \notin dirs) => ret[1] = None
            /\ (~c.keep_structure /\ c.output_directory \in dirs) =>
                  ret[1] = Some(Append(c.output_directory, C10_FileName(c)))

C11_Witness ==
    /\ call.keep_structure
    /\ call.input_file_path = <<D("different_base"), D("folder"), TestJpg>>
    /\ call.suffix = <<"_suffix">>
    /\ ret = <<None>>

----------------------------------------------------------------------------
(* get_real_resolution and build_resize_parameters, lines 259-360 *)

MaxDim == 2
MaxOrientation == 9

\* lines 354-357 with the range of the rotated orientations begun one too late
oriented_from_six(resolution, orientation) ==
    IF orientation \in 6..8
    THEN [width |-> resolution.height, height |-> resolution.width]
    ELSE [width |-> resolution.width, height |-> resolution.height]

\* lines 354-357
oriented(resolution, orientation) ==
    IF orientation \in 5..8
    THEN [width |-> resolution.height, height |-> resolution.width]
    ELSE [width |-> resolution.width, height |-> resolution.height]

\* what the probes of a file give: probe.size is imagesize::size (None for an error),
\* probe.open is File::open, probe.container is read_from_container,
\* probe.field is get_field(Orientation) holding get_uint(0)
get_real_resolution(probe, mime_type, keep_metadata) ==
    IF probe.size = None THEN [ok |-> FALSE, width |-> 0, height |-> 0]
    ELSE LET resolution == probe.size[1]
             mime == IF mime_type = None THEN "" ELSE mime_type[1]
             natural == [ok |-> TRUE, width |-> resolution.width, height |-> resolution.height]
             turned(orientation) ==
                 LET wh == oriented(resolution, orientation)
                 IN  [ok |-> TRUE, width |-> wh.width, height |-> wh.height]
         IN  IF mime = "image/jpeg" /\ keep_metadata
             THEN IF ~probe.open THEN [ok |-> FALSE, width |-> 0, height |-> 0]
                  ELSE IF probe.container
                  THEN IF probe.field = None THEN natural
                       ELSE turned(IF probe.field[1] = None THEN 1 ELSE probe.field[1][1])
                  ELSE turned(1)
             ELSE turned(1)

\* lines 267-285 with the comparison of the short edge turned round
resize_rule_short_is_long(resize, parameters, width, height) ==
    IF resize.width # None THEN [parameters EXCEPT !.width = resize.width[1]]
    ELSE IF resize.height # None THEN [parameters EXCEPT !.height = resize.height[1]]
    ELSE IF resize.long_edge # None
    THEN IF width > height THEN [parameters EXCEPT !.width = resize.long_edge[1]]
         ELSE [parameters EXCEPT !.height = resize.long_edge[1]]
    ELSE IF resize.short_edge # None
    THEN IF width > height THEN [parameters EXCEPT !.width = resize.short_edge[1]]
         ELSE [parameters EXCEPT !.height = resize.short_edge[1]]
    ELSE parameters

\* lines 267-285
resize_rule(resize, parameters, width, height) ==
    IF resize.width # None THEN [parameters EXCEPT !.width = resize.width[1]]
    ELSE IF resize.height # None THEN [parameters EXCEPT !.height = resize.height[1]]
    ELSE IF resize.long_edge # None
    THEN IF width > height THEN [parameters EXCEPT !.width = resize.long_edge[1]]
         ELSE [parameters EXCEPT !.height = resize.long_edge[1]]
    ELSE IF resize.short_edge # None
    THEN IF width < height THEN [parameters EXCEPT !.width = resize.short_edge[1]]
         ELSE [parameters EXCEPT !.height = resize.short_edge[1]]
    ELSE parameters

\* lines 259-288: [ok |-> the Result is Ok, parameters |-> the parameters afterwards]
build_resize_parameters(resize, exif, parameters, probe, mime_type) ==
    LET real == get_real_resolution(probe, mime_type, exif)
    IN  IF ~real.ok THEN [ok |-> FALSE, parameters |-> parameters]
        ELSE [ok |-> TRUE,
              parameters |-> resize_rule(resize, parameters, real.width, real.height)]

\* CSParameters::new() as far as the planner writes it
NewParameters == [width |-> 0, height |-> 0]

Dims == 1..MaxDim

\* the requests clap lets through: --width and --height together, or one edge
ResizeRequests ==
    {[NoResize EXCEPT !.width = w, !.height = h] :
        w \in {None} \cup {Some(v) : v \in 0..MaxDim},
        h \in {None} \cup {Some(v) : v \in 0..MaxDim}}
    \cup {[NoResize EXCEPT !.long_edge = Some(v)] : v \in 0..MaxDim}
    \cup {[NoResize EXCEPT !.short_edge = Some(v)] : v \in 0..MaxDim}

Probes ==
    [size : {None} \cup {Some([width |-> w, height |-> h]) : w \in Dims, h \in Dims},
     open : BOOLEAN,
     container : BOOLEAN,
     field : {None, Some(None)} \cup {Some(Some(o)) : o \in 0..MaxOrientation}]

MimeTypes == {None, Some("image/jpeg"), Some("image/png")}

InitResize ==
    /\ IdleMain
    /\ dirs = {}
    /\ call \in [resize : ResizeRequests \ {NoResize}, exif : BOOLEAN,
                 probe : Probes, mime_type : MimeTypes]
    /\ ret = <<>>

CallGetRealResolution ==
    /\ ret = <<>>
    /\ ret' = <<[fn |-> "get_real_resolution",
                 value |-> get_real_resolution(call.probe, call.mime_type, call.exif)]>>
    /\ UNCHANGED <<mainVars, dirs, call>>

CallBuildResizeParameters ==
    /\ ret = <<>>
    /\ ret' = <<[fn |-> "build_resize_parameters",
                 value |-> build_resize_parameters(call.resize, call.exif, NewParameters,
                                                   call.probe, call.mime_type)]>>
    /\ UNCHANGED <<mainVars, dirs, call>>

NextResize == CallGetRealResolution \/ CallBuildResizeParameters

SpecResize == InitResize /\ [][NextResize]_vars

C13_RealResolution ==
    (ret # <<>> /\ ret[1].fn = "get_real_resolution" /\ ret[1].value.ok) =>
        LET natural == call.probe.size[1]
            f == call.probe.field
            rotated == /\ call.mime_type = Some("image/jpeg")
                       /\ call.exif
                       /\ call.probe.container
                       /\ f # None
                       /\ f[1] # None
                       /\ f[1][1] \in {5, 6, 7, 8}
        IN  /\ rotated => (ret[1].value.width = natural.height
                           /\ ret[1].value.height = natural.width)
            /\ ~rotated => (ret[1].value.width = natural.width
                            /\ ret[1].value.height = natural.height)

C13_Witness ==
    /\ ret # <<>>
    /\ ret[1].fn = "get_real_resolution"
    /\ call.mime_type = Some("image/jpeg")
    /\ call.exif
    /\ call.probe.field = Some(Some(5))
    /\ call.probe.size = Some([width |-> 1, height |-> MaxDim])
    /\ ret[1].value = [ok |-> TRUE, width |-> MaxDim, height |-> 1]

----------------------------------------------------------------------------
(* write_recap_message on its own, lines 196-226 *)

MaxResults == 2

\* the results a closure can return (lines 67-189): an Error keeps compressed_size 0
\* and has original_size 0 before the metadata is read; a Skipped result copies the
\* original size; a Success has the candidate's size, or 0 in a dry run
ResultSet ==
    LET mk(st, o, c) == [original_path |-> FilePool[1].path, output_path |-> <<>>,
                         original_size |-> o, compressed_size |-> c,
                         status |-> st, message |-> ""]
    IN  {mk("Error", o, 0) : o \in 0..MaxSize}
        \cup {mk("Skipped", o, o) : o \in 1..MaxSize}
        \cup {mk("Success", o, c) : o \in 1..MaxSize, c \in 0..MaxSize}

ResultLists == UNION {[1..n -> ResultSet] : n \in 0..MaxResults}

InitRecap ==
    /\ IdleMain
    /\ dirs = {}
    /\ call \in [compression_results : ResultLists, verbose : VerboseLevels]
    /\ ret = <<>>

CallWriteRecapMessage ==
    /\ ret = <<>>
    /\ ret' = <<write_recap_message(call.compression_results, call.verbose)>>
    /\ UNCHANGED <<mainVars, dirs, call>>

NextRecap == CallWriteRecapMessage

SpecRecap == InitRecap /\ [][NextRecap]_vars

\* C14: the saved total is max(0, original total - written total), and the saved
\* percentage is saved / original total * 100 when the original total is positive
\* and exactly 0 when it is 0.
C14_SavedAndPercent ==
    ret # <<>> =>
        LET t == ret[1].totals
            diff == t.total_original_size - t.total_compressed_size
            saved == IF diff > 0 THEN diff ELSE 0
        IN  /\ ret[1].total_saved = saved
            /\ ret[1].total_saved_percent =
                   IF t.total_original_size > 0
                   THEN [kind |-> "finite", num |-> saved * 100, den |-> t.total_original_size]
                   ELSE [kind |-> "finite", num |-> 0, den |-> 1]

\* the lines of the summary, lines 218-224
SummaryLabels ==
    {"Total files", "Total success", "Total skipped", "Total errors",
     "Total original size", "Total compressed size", "Total saved"}

SummaryLines(out) == {i \in DOMAIN out : out[i][1] \in SummaryLabels}

JobLines(out) == {i \in DOMAIN out : out[i][1] \notin SummaryLabels}

\* C15: nothing is printed at level 0; the seven summary lines at level 1 and above;
\* from level 2 one more line for each Skipped or Error result, and at level 3 one
\* more line for each Success result.
C15_VerbosityTiers ==
    ret # <<>> =>
        LET out == ret[1].out
            t == ret[1].totals
            v == call.verbose
        IN  /\ (v = 0 => out = <<>>)
            /\ (v >= 1 => Cardinality(SummaryLines(out)) = 7)
            /\ Cardinality(JobLines(out)) =
                   (IF v >= 2 THEN t.total_skipped + t.total_errors ELSE 0)
                     + (IF v >= 3 THEN t.total_success ELSE 0)

\* C16: for an empty list of results nothing is printed, whatever the level.
C16_EmptyEmitsNothing ==
    (ret # <<>> /\ call.compression_results = <<>>) => ret[1].out = <<>>

\* the lists with the same results in another order
Reorderings(rs) ==
    {[i \in DOMAIN rs |-> rs[p[i]]] :
        p \in {q \in [DOMAIN rs -> DOMAIN rs] : \A i, k \in DOMAIN rs : q[i] = q[k] => i = k}}

\* C17: the totals and the three counts are the same for every order of the results.
C17_OrderIndependent ==
    ret # <<>> =>
        \A other \in Reorderings(call.compression_results) :
            /\ fold_results(other) = ret[1].totals
            /\ write_recap_message(other, call.verbose) = ret[1]

C17_Witness ==
    /\ ret # <<>>
    /\ Len(call.compression_results) = MaxResults
    /\ call.compression_results[1].status = "Success"
    /\ call.compression_results[1].original_size = MaxSize
    /\ call.compression_results[MaxResults].status = "Error"
    /\ call.compression_results[MaxResults].original_size = 0
    /\ ret[1].totals.total_original_size = MaxSize + (MaxResults - 2)
    /\ call.verbose = 1

----------------------------------------------------------------------------
(* Concurrent closures in fs::create_dir_all, lines 306-322: one action per system
   call. create_dir_all(path) calls mkdir(path); a NotFound error makes it create the
   parent first and call mkdir(path) again; any other error is a success when
   path.is_dir() holds. local[j].create_dir_all is the stack of its calls in
   progress, the innermost first. *)

MaxJobs == 2

JobLists ==
    LET idx == UNION {[1..n -> PoolIdx] : n \in 0..Min(MaxJobs, Len(FilePool))}
        inc == {s \in idx : \A i, k \in DOMAIN s : i < k => s[i] < s[k]}
    IN  {[i \in DOMAIN s |-> FilePool[s[i]].path] : s \in inc}

\* --dry-run --output /output, with and without --keep-structure
DirsArgs ==
    {a \in ArgsSet : /\ a.dry_run
                     /\ ~a.keep_dates
                     /\ a.overwrite = "All"
                     /\ a.resize = NoResize
                     /\ ~a.output_destination.same_folder_as_input}

InitDirs ==
    /\ phase = "init"
    /\ pool = "unbuilt"
    /\ args \in DirsArgs
    /\ input_files \in JobLists
    /\ pc = [j \in DOMAIN input_files |-> "start"]
    /\ result = [j \in DOMAIN input_files |-> NoResult]
    /\ local = [j \in DOMAIN input_files |-> NoLocal]
    /\ files = InputFiles
    /\ dirs \in {InputDirs, InputDirs \cup Prefixes(OutputDir)}
    /\ fs0 = [dirs |-> dirs, files |-> files]
    /\ wrote = {}
    /\ compression_results = <<>>
    /\ recap = <<>>
    /\ call = <<>>
    /\ ret = <<>>

\* `Err(_) if path.is_dir()` with the test taken as never true
is_dir_never(p, ds) == FALSE

\* Path::is_dir
is_dir(p, ds) == p \in ds

Frame(p, again) == [path |-> p, stage |-> "mkdir", again |-> again]

\* lines 86-116 up to the call of fs::create_dir_all
StartCreateDirAll(j) ==
    /\ phase = "map"
    /\ pc[j] = "resolve"
    /\ LET input_file == input_files[j]
           output_directory == output_directory_of(args, input_file)
           canon == canonicalize(parent(input_file)[1], dirs)
           output_path_prefix ==
               IF canon = None THEN None ELSE strip_prefix(canon[1], base_path)
           name == output_file_name(input_file, unwrap_or_default(args.suffix))
           target == IF args.keep_structure
                     THEN join(output_directory[1], output_path_prefix[1])
                     ELSE output_directory[1]
       IN  IF output_directory = None
           THEN Return(j, Failed(result[j], "Error getting output directory"))
           ELSE IF args.keep_structure /\ (parent(input_file) = None \/ output_path_prefix = None)
           THEN Return(j, Failed(result[j], "Error computing output path"))
           ELSE /\ local' = [local EXCEPT ![j].output_full_path = join(target, <<name>>),
                                          ![j].create_dir_all = <<Frame(target, FALSE)>>]
                /\ pc' = [pc EXCEPT ![j] = "mkdir"]
                /\ result' = result
    /\ UNCHANGED <<phase, pool, args, input_files, dirs, files, fs0, wrote,
                   compression_results, recap, call, ret>>

\* the innermost call returns Ok: its caller goes on, and after the outermost call
\* the path is Some(..) and the dry run returns Success (lines 118-121)
CreateDirAllOk(j) ==
    LET rest == Tail(local[j].create_dir_all)
    IN  IF rest = <<>>
        THEN Return(j, [result[j] EXCEPT !.status = "Success"])
        ELSE /\ local' = [local EXCEPT ![j].create_dir_all = rest]
             /\ UNCHANGED <<pc, result>>

\* an Err goes up through every `?` to `.ok()?`: the path is None
CreateDirAllErr(j) == Return(j, Failed(result[j], "Error computing output path"))

\* one mkdir system call of the innermost create_dir_all
Mkdir(j) ==
    /\ phase = "map"
    /\ pc[j] = "mkdir"
    /\ local[j].create_dir_all # <<>>
    /\ LET top == Head(local[j].create_dir_all)
           rest == Tail(local[j].create_dir_all)
           p == top.path
           error == /\ local' = [local EXCEPT
                                   ![j].create_dir_all = <<[top EXCEPT !.stage = "is_dir"]>> \o rest]
                    /\ UNCHANGED <<pc, result, dirs>>
       IN  /\ top.stage = "mkdir"
           /\ IF p \in dirs
              THEN error
              ELSE IF parent(p)[1] \notin dirs
              THEN IF top.again
                   THEN error
                   ELSE /\ local' = [local EXCEPT ![j].create_dir_all =
                                         <<Frame(parent(p)[1], FALSE), Frame(p, TRUE)>> \o rest]
                        /\ UNCHANGED <<pc, result, dirs>>
              ELSE \E refused \in BOOLEAN :
                      IF refused
                      THEN error
                      ELSE /\ dirs' = dirs \cup {p}
                           /\ CreateDirAllOk(j)
    /\ UNCHANGED <<phase, pool, args, input_files, files, fs0, wrote,
                   compression_results, recap, call, ret>>

\* the test `path.is_dir()` after a failed mkdir
IsDir(j) ==
    /\ phase = "map"
    /\ pc[j] = "mkdir"
    /\ local[j].create_dir_all # <<>>
    /\ LET top == Head(local[j].create_dir_all)
       IN  /\ top.stage = "is_dir"
           /\ IF is_dir(top.path, dirs) THEN CreateDirAllOk(j) ELSE CreateDirAllErr(j)
    /\ UNCHANGED <<phase, pool, args, input_files, dirs, files, fs0, wrote,
                   compression_results, recap, call, ret>>

NextDirs ==
    \/ BuildPool
    \/ \E j \in Jobs : ReadMetadata(j)
    \/ \E j \in Jobs : StartCreateDirAll(j)
    \/ \E j \in Jobs : Mkdir(j)
    \/ \E j \in Jobs : IsDir(j)
    \/ Collect
    \/ WriteRecap

SpecDirs == InitDirs /\ [][NextDirs]_vars

\* the directory the closure of job j asks create_dir_all for
TargetOf(j) == parent(local[j].output_full_path)[1]

\* C18: in every interleaving of closures that create the same output directories, a
\* closure whose mkdir failed on a directory that exists goes on as after a success;
\* path resolution fails only while the directory it could not make is still
\* missing, never because another closure made it first; and a closure that comes
\* out of create_dir_all with success leaves the directory in place.
C18_ConcurrentCreateDirAll ==
    [][\A j \in Jobs :
          LET top == Head(local[j].create_dir_all)
              over == pc[j] = "mkdir" /\ pc'[j] = "done"
          IN  /\ (over /\ result'[j].status = "Error") =>
                    (top.stage = "is_dir" /\ top.path \notin dirs)
              /\ (pc[j] = "mkdir" /\ top.stage = "is_dir" /\ top.path \in dirs
                    /\ local'[j] # local[j]) =>
                    /\ result'[j].status # "Error" \/ pc'[j] # "done"
                    /\ local[j].create_dir_all = <<top>> => result'[j].status = "Success"
              /\ (over /\ result'[j].status = "Success") =>
                    (TargetOf(j) \in dirs' /\ Prefixes(TargetOf(j)) \subseteq dirs')
      ]_vars

\* a closure finds, after its own mkdir failed, a directory that another closure
\* created during this run, while that other closure is still in create_dir_all too
C18_Witness ==
    \E j, k \in Jobs :
        /\ j # k
        /\ pc[j] = "mkdir"
        /\ pc[k] = "mkdir"
        /\ Head(local[j].create_dir_all).stage = "is_dir"
        /\ Head(local[j].create_dir_all).path \in dirs \ fs0.dirs
        /\ Head(local[j].create_dir_all).path \in Prefixes(TargetOf(k))

\* C19: the summary is written only when every closure has returned its result and
\* it counts the results of all input files, and a run that has come to its end has
\* written the summary.
C19_RecapAfterAllJobs ==
    /\ recap # <<>> =>
          /\ \A j \in Jobs : Ended(j)
          /\ recap.totals.total_files = Len(input_files)
          /\ recap.totals = fold_results([j \in Jobs |-> result[j]])
    /\ Terminated => recap # <<>>

\* C20: outside a dry run a closure returns Success only from the last step of the
\* chain codec, overwrite check, create, write, dates, each step entered from the one
\* before it; its result then carries the size the input file had, the resolved
\* output path and, as compressed size, the number of bytes of the candidate, which
\* is the size of the file at that path unless another closure wrote the same path.
C20_SuccessAfterWrite ==
    [][\A j \in Jobs :
          /\ (pc'[j] = "exists" /\ pc[j] # "exists") => pc[j] = "compress"
          /\ (pc'[j] = "create" /\ pc[j] # "create") => pc[j] = "exists"
          /\ (pc'[j] = "write" /\ pc[j] # "write") => pc[j] = "create"
          /\ (pc'[j] = "dates" /\ pc[j] # "dates") => pc[j] = "write"
          /\ (~args.dry_run /\ result'[j].status = "Success" /\ result[j].status # "Success") =>
                LET p == OutputPathOf(args, input_files[j])
                IN  /\ pc[j] = "dates"
                    /\ j \in wrote
                    /\ result'[j].original_size = fs0.files[input_files[j]].size
                    /\ result'[j].output_path = p
                    /\ local[j].output_full_path = p
                    /\ result'[j].compressed_size = local[j].output_file_size
                    /\ (\A k \in wrote \ {j} : OutputPathOf(args, input_files[k]) # p) =>
                          files'[p].size = result'[j].compressed_size
      ]_vars

C20_Witness ==
    /\ ~args.dry_run
    /\ args.overwrite = "All"
    /\ \E j \in Jobs :
          /\ Ended(j)
          /\ result[j].status = "Success"
          /\ j \in wrote
          /\ result[j].original_size = 1
          /\ result[j].compressed_size = MaxSize
          /\ files[result[j].output_path].size = MaxSize

----------------------------------------------------------------------------
(* Concurrent closures through the whole of lines 66-190 under --overwrite none:
   the test output_full_path.exists() (line 137) and File::create (line 158) are
   two steps of a closure, and other closures run between them *)

\* --overwrite none --output /output, with and without --keep-structure
RaceArgs ==
    {a \in ArgsSet : /\ ~a.dry_run
                     /\ ~a.keep_dates
                     /\ a.overwrite = "None"
                     /\ a.resize = NoResize
                     /\ ~a.output_destination.same_folder_as_input}

InitRace ==
    /\ phase = "init"
    /\ pool = "unbuilt"
    /\ args \in RaceArgs
    /\ input_files \in JobLists
    /\ pc = [j \in DOMAIN input_files |-> "start"]
    /\ result = [j \in DOMAIN input_files |-> NoResult]
    /\ local = [j \in DOMAIN input_files |-> NoLocal]
    /\ files = InputFiles
    /\ dirs = InputDirs
    /\ fs0 = [dirs |-> dirs, files |-> files]
    /\ wrote = {}
    /\ compression_results = <<>>
    /\ recap = <<>>
    /\ call = <<>>
    /\ ret = <<>>

SpecRace == InitRace /\ [][Next]_vars

\* C21: under the overwrite policy None no closure creates or truncates a file at a
\* path where a file exists at the moment of its File::create, and of two closures
\* with the same output path at most one writes it.
C21_NoneNeverOverwrites ==
    [][args.overwrite = "None" =>
          \A j \in Jobs :
              /\ (pc[j] = "create" /\ pc'[j] = "write") =>
                    local[j].output_full_path \notin DOMAIN files
              /\ \A k \in Jobs \ {j} :
                    OutputPathOf(args, input_files[j]) = OutputPathOf(args, input_files[k])
                        => ~({j, k} \subseteq wrote')
      ]_vars

\* C22: a closure that has returned an Error result has not created, truncated or
\* written a file: the file at its output path is as it was when the run began.
C22_ErrorLeavesOutputAlone ==
    \A j \in Jobs :
        (Ended(j) /\ result[j].status = "Error") =>
            /\ j \notin wrote
            /\ wrote = {} => files = fs0.files

====
